---- MODULE Spec2Model ----
(***************************************************************************)
(* A model of the flange cost calculator (src/app.py): the catalog         *)
(* navigator (seven cascading selections over a nested mapping), the two   *)
(* parsing helpers (billet section, inch-size token), the compound-label   *)
(* parsing with its price keys, and the cost pipeline run by "Calculate".  *)
(*                                                                         *)
(* Strings are sequences of one-character strings, so that split, strip,  *)
(* replace, lower and the regular expressions act on characters as the     *)
(* Python code does.  Python floats are modelled by exact rationals: every *)
(* derived figure is an integer numerator over the power of ten its name   *)
(* states (total_x10 is ten times the total).  float() is modelled on the  *)
(* alphabet the model uses: signs, digits and digit-grouping underscores;  *)
(* decimal points, exponents and the inf/nan literals are outside it.      *)
(***************************************************************************)
EXTENDS Integers, Sequences, FiniteSets, TLC

VARIABLES
    password_correct,     \* st.session_state["password_correct"]: "absent", "True", "False"
    selections,           \* st.session_state.selections: level 0..6 -> label
    pending,              \* "none": page shown, waiting for the user; "rerun": script run due
    last_change,          \* the last selection_on_change_callback call: its level and label
    inputs,               \* the seven cost inputs of st.session_state
    ft_manual_checkbox,   \* st.session_state.ft_manual_checkbox
    ft_manual_input,      \* st.session_state.ft_manual_input
    session_prices,       \* st.session_state["price_extra_<key>"], by <key>
    extra_flange_prices,  \* st.session_state.extra_flange_prices: description -> price
    calc_button,          \* the "Calculate Costs" button was clicked for the run that is due
    page,                 \* what the last script run rendered
    token,                \* an inch-size token handed to get_cutting_waste_kg
    waste_out             \* what get_cutting_waste_kg gave for token

vars == << password_correct, selections, pending, last_change, inputs,
           ft_manual_checkbox, ft_manual_input, session_prices,
           extra_flange_prices, calc_button, page, token, waste_out >>

appVars == << password_correct, selections, pending, last_change, inputs,
              ft_manual_checkbox, ft_manual_input, session_prices,
              extra_flange_prices, calc_button, page >>

-----------------------------------------------------------------------------
(* Program constants *)

REFERENCE_BILLET_WIDTH_MM == 100
REFERENCE_BILLET_HEIGHT_MM == 100
REFERENCE_BILLET_MASS_KG == 482
\* GST_RATE = 0.19, in hundredths
GST_RATE_PCT == 19
\* scrap_loss_factor = 0.90, in tenths
SCRAP_LOSS_FACTOR_X10 == 9
\* len(level_names)
NumLevels == 7

Levels == 0 .. (NumLevels - 1)

-----------------------------------------------------------------------------
(* Strings *)

Empty == << >>

UpperChars == << "A","B","C","D","E","F","G","H","I","J","K","L","M",
                 "N","O","P","Q","R","S","T","U","V","W","X","Y","Z" >>
LowerChars == << "a","b","c","d","e","f","g","h","i","j","k","l","m",
                 "n","o","p","q","r","s","t","u","v","w","x","y","z" >>
DigitChars == << "0","1","2","3","4","5","6","7","8","9" >>

Range(s) == { s[i] : i \in 1 .. Len(s) }

IsDigit(c) == c \in Range(DigitChars)
DigitVal(c) == (CHOOSE i \in 1 .. 10 : DigitChars[i] = c) - 1
IsSpace(c) == c = " "
\* \w of Python's re: letters, digits and the underscore
IsWordChar(c) == c \in Range(UpperChars) \cup Range(LowerChars) \cup Range(DigitChars) \cup {"_"}

LowerChar(c) ==
    IF c \in Range(UpperChars)
    THEN LowerChars[CHOOSE i \in 1 .. 26 : UpperChars[i] = c]
    ELSE c

\* str.lower()
Lower(s) == [i \in 1 .. Len(s) |-> LowerChar(s[i])]

RECURSIVE LStrip(_)
LStrip(s) == IF s # Empty /\ IsSpace(Head(s)) THEN LStrip(Tail(s)) ELSE s

RECURSIVE RStrip(_)
RStrip(s) ==
    IF s # Empty /\ IsSpace(s[Len(s)]) THEN RStrip(SubSeq(s, 1, Len(s) - 1)) ELSE s

\* str.strip()
Strip(s) == LStrip(RStrip(s))

\* c in s
Contains(s, c) == c \in Range(s)

\* s.split(c): the parts between the occurrences of the character c
RECURSIVE SplitAcc(_, _, _)
SplitAcc(s, c, cur) ==
    IF s = Empty THEN << cur >>
    ELSE IF Head(s) = c THEN << cur >> \o SplitAcc(Tail(s), c, Empty)
    ELSE SplitAcc(Tail(s), c, Append(cur, Head(s)))

Split(s, c) == SplitAcc(s, c, Empty)

StartsWith(s, p) == Len(s) >= Len(p) /\ SubSeq(s, 1, Len(p)) = p

\* s.replace(old, ''): the non-overlapping occurrences, left to right
RECURSIVE Remove(_, _)
Remove(s, old) ==
    IF s = Empty THEN Empty
    ELSE IF StartsWith(s, old) THEN Remove(SubSeq(s, Len(old) + 1, Len(s)), old)
    ELSE << Head(s) >> \o Remove(Tail(s), old)

RECURSIVE DigitsValue(_)
DigitsValue(s) ==
    IF s = Empty THEN 0
    ELSE DigitsValue(SubSeq(s, 1, Len(s) - 1)) * 10 + DigitVal(s[Len(s)])

\* digits, with single underscores allowed between digits (PEP 515)
IsDigitString(s) ==
    /\ s # Empty
    /\ IsDigit(s[1]) /\ IsDigit(s[Len(s)])
    /\ \A i \in 1 .. Len(s) : IsDigit(s[i]) \/ s[i] = "_"
    /\ \A i \in 1 .. (Len(s) - 1) : ~(s[i] = "_" /\ s[i + 1] = "_")

\* float(s): [ok |-> TRUE, v |-> value], or [ok |-> FALSE] for ValueError.
\* The text is stripped, an optional sign is taken, the rest must be digits.
ParseDigits(body, negative) ==
    IF IsDigitString(body)
    THEN [ok |-> TRUE,
          v |-> IF negative THEN 0 - DigitsValue(SelectSeq(body, IsDigit))
                ELSE DigitsValue(SelectSeq(body, IsDigit))]
    ELSE [ok |-> FALSE, v |-> 0]

ParseSigned(t) ==
    IF t # Empty /\ Head(t) \in {"+", "-"}
    THEN ParseDigits(Tail(t), Head(t) = "-")
    ELSE ParseDigits(t, FALSE)

ParseFloat(s) == ParseSigned(Strip(s))

-----------------------------------------------------------------------------
(* JSON values of the catalog *)

None == [t |-> "None"]
Num(n) == [t |-> "num", v |-> n]
Str(s) == [t |-> "str", s |-> s]
Dict(f) == [t |-> "dict", d |-> f]

\* isinstance(x, dict)
IsDict(x) == x.t = "dict"
\* isinstance(x, (int, float))
IsNumeric(x) == x.t = "num"
\* x is None
IsNone(x) == x.t = "None"

Keys(x) == DOMAIN x.d
\* dict.get(key, default)
Get(x, key, default) == IF key \in Keys(x) THEN x.d[key] ELSE default

K_FW == << "F","W" >>
K_CW == << "C","W" >>
K_FT == << "F","T" >>
K_SECTION == << "S","E","C","T","I","O","N" >>
NotAvailable == << "N","/","A" >>

-----------------------------------------------------------------------------
(* The catalog: load_data's result.  The file output_flange_data.json is   *)
(* data, not code; this catalog holds one node of every shape the code     *)
(* tells apart: leaves at several depths, equal-named children in two      *)
(* branches, compound labels, a node with FW alone, leaves whose FW or CW  *)
(* is null or a string, FT present, absent, null and a string, and inch    *)
(* labels and SECTION strings of every parse outcome.                      *)

L_WN == << "W","N" >>
L_SO == << "S","O" >>
L_2_inch == << "2","_","i","n","c","h" >>
L_6_inch == << "6","_","i","n","c","h" >>
L_1_0_inch == << "1","_","0","_","i","n","c","h" >>
L_9_1_2_3 == << "9","_","1","_","2","_","3" >>
L_x_inch == << "x","_","i","n","c","h" >>
L_150 == << "1","5","0" >>
L_300 == << "3","0","0" >>
L_RF == << "R","F" >>
L_RF_BL == << "R","F"," ","+"," ","B","L" >>
L_RF_BL_B_L == << "R","F","+","B","L"," ","+"," ","B","-","L" >>
L_SO_B_L == << "S","O"," ","+"," ","B"," ","L" >>

S_100x100 == << "1","0","0","x","1","0","0" >>
S_50X50 == << "5","0","X","5","0" >>
S_100 == << "1","0","0" >>
S_ax5 == << "a","x","5" >>
S_1x2x3 == << "1","x","2","x","3" >>

Leaf_A == Dict(K_FW :> Num(55) @@ K_CW :> Num(50) @@ K_FT :> Num(52) @@ K_SECTION :> Str(S_100x100))
Leaf_B == Dict(K_FW :> Num(12) @@ K_CW :> Num(10) @@ K_SECTION :> Str(S_50X50))
Leaf_C == Dict(K_FW :> Num(12) @@ K_CW :> Num(10) @@ K_FT :> Str(NotAvailable) @@ K_SECTION :> Str(Empty))
Leaf_D == Dict(K_FW :> Num(20) @@ K_CW :> Num(25) @@ K_FT :> Num(30) @@ K_SECTION :> Str(S_100))
Leaf_E == Dict(K_FW :> Num(5) @@ K_CW :> Num(4) @@ K_FT :> Num(3) @@ K_SECTION :> Str(S_100x100))
Leaf_F == Dict(K_FW :> Num(5) @@ K_CW :> Num(4) @@ K_FT :> None)
Leaf_G == Dict(K_FW :> Num(5) @@ K_CW :> Num(4) @@ K_FT :> Num(5) @@ K_SECTION :> Str(S_ax5))
Leaf_H == Dict(K_FW :> Num(12) @@ K_CW :> Num(10) @@ K_FT :> Num(11) @@ K_SECTION :> Str(S_1x2x3))
Leaf_I == Dict(K_FW :> None @@ K_CW :> Num(7))
Leaf_J == Dict(K_FW :> Num(8) @@ K_CW :> Str(NotAvailable) @@ K_FT :> Num(7))
\* FW without CW: not a leaf
Node_P == Dict(K_FW :> Num(9))

flange_database ==
    Dict(L_WN :> Dict(L_2_inch :> Dict(L_150 :> Dict(L_RF :> Leaf_A @@
                                                      L_RF_BL :> Leaf_B @@
                                                      L_RF_BL_B_L :> Leaf_C) @@
                                       L_300 :> Leaf_D) @@
                      L_1_0_inch :> Dict(L_150 :> Leaf_E) @@
                      L_9_1_2_3 :> Dict(L_150 :> Leaf_F) @@
                      L_x_inch :> Dict(L_150 :> Leaf_G)) @@
         L_SO :> Dict(L_2_inch :> Dict(L_150 :> Dict(L_RF :> Node_P @@
                                                      L_SO_B_L :> Leaf_H) @@
                                       L_300 :> Leaf_I) @@
                      L_6_inch :> Leaf_J))

-----------------------------------------------------------------------------
(* Catalog navigation *)

\* a test of the FW key alone
HasFwKey(x) == K_FW \in Keys(x)

\* all(k in d for k in ['FW', 'CW'])
HasWeightKeys(x) == K_FW \in Keys(x) /\ K_CW \in Keys(x)

RECURSIVE get_nested_value(_, _)
get_nested_value(data_dict, path_list) ==
    IF path_list = Empty THEN data_dict
    ELSE IF IsDict(data_dict) /\ Head(path_list) \in Keys(data_dict)
         THEN get_nested_value(data_dict.d[Head(path_list)], Tail(path_list))
         ELSE None

\* data_source_for_current_dropdown of level i: the walk of lines 142-149
RECURSIVE WalkPrefix(_, _, _, _)
WalkPrefix(data, sel, prev_level_idx, i) ==
    IF prev_level_idx = i THEN data
    ELSE IF IsDict(data) /\ sel[prev_level_idx] \in Keys(data)
         THEN WalkPrefix(data.d[sel[prev_level_idx]], sel, prev_level_idx + 1, i)
         ELSE Dict(<< >>)

DataSourceFor(sel, i) == WalkPrefix(flange_database, sel, 0, i)

\* a loop that never takes the break of line 153
NeverLeaf(src) == FALSE

\* the leaf check that ends the dropdown loop
LoopLeafCheck(src) == IsDict(src) /\ HasWeightKeys(src)

\* options_for_this_level, as a set
OptionsFor(src) == {Empty} \cup (IF IsDict(src) THEN Keys(src) ELSE {})

\* The dropdown rendering loop from level i on: the selections it leaves
\* (an invalid one is reset) and the number of dropdowns it rendered.
\* DropdownStep is one iteration, src its data_source_for_current_dropdown.
RECURSIVE DropdownLoop(_, _)
DropdownStep(sel, i, src) ==
    IF LoopLeafCheck(src) THEN [sel |-> sel, n |-> i]
    ELSE IF sel[i] \notin OptionsFor(src)
         THEN DropdownLoop([sel EXCEPT ![i] = Empty], i + 1)
         ELSE DropdownLoop(sel, i + 1)

DropdownLoop(sel, i) ==
    IF i = NumLevels THEN [sel |-> sel, n |-> i]
    ELSE DropdownStep(sel, i, DataSourceFor(sel, i))

\* [s for s in st.session_state.selections if s]
RECURSIVE ActivePathFrom(_, _)
ActivePathFrom(sel, i) ==
    IF i = NumLevels THEN Empty
    ELSE (IF sel[i] # Empty THEN << sel[i] >> ELSE Empty) \o ActivePathFrom(sel, i + 1)

active_selection_path(sel) == ActivePathFrom(sel, 0)

\* the test of lines 184 and 186 on data_candidate
LeafOrNone(path, data_candidate) ==
    IF path # Empty /\ IsDict(data_candidate) /\ HasWeightKeys(data_candidate)
    THEN data_candidate
    ELSE None

\* selected_flange_data of lines 182-187, for the active path
selected_flange_data(path) == LeafOrNone(path, get_nested_value(flange_database, path))

\* a callback that leaves the level right below the changed one as it was
callback_keeping_next_level(sel, level_idx, v) ==
    [k \in Levels |-> IF k = level_idx THEN v
                      ELSE IF k > level_idx + 1 THEN Empty
                      ELSE sel[k]]

\* selection_on_change_callback(level_idx, widget_key), v the widget's value
selection_on_change_callback(sel, level_idx, v) ==
    [k \in Levels |-> IF k = level_idx THEN v
                      ELSE IF k > level_idx THEN Empty
                      ELSE sel[k]]

-----------------------------------------------------------------------------
(* Helper functions *)

\* A rational n/d, d # 0, against an integer k
RatLe(n, d, k) == IF d > 0 THEN n <= k * d ELSE n >= k * d

\* lines 47-50: the mass in kg as the rational n/d; None when float() raises
BilletFromDims(width_mm, height_mm) ==
    IF ~width_mm.ok \/ ~height_mm.ok THEN None
    ELSE IF REFERENCE_BILLET_WIDTH_MM = 0 \/ REFERENCE_BILLET_HEIGHT_MM = 0 THEN None
    ELSE [t |-> "mass",
          n |-> width_mm.v * height_mm.v * REFERENCE_BILLET_MASS_KG,
          d |-> REFERENCE_BILLET_WIDTH_MM * REFERENCE_BILLET_HEIGHT_MM]

\* lines 45-47: parts = section_str.lower().split('x')
BilletFromParts(parts) ==
    IF Len(parts) # 2 THEN None
    ELSE BilletFromDims(ParseFloat(parts[1]), ParseFloat(parts[2]))

\* line 43, second test, on section_str.lower()
BilletFromLower(low) ==
    IF ~Contains(low, "x") THEN None ELSE BilletFromParts(Split(low, "x"))

\* calculate_billet_weight_from_section: the mass, None for "unknown", or
\* [t |-> "raise"] where line 43 applies .lower() to a number.
calculate_billet_weight_from_section(section) ==
    IF IsNone(section) THEN None
    ELSE IF IsNumeric(section)
         THEN (IF section.v = 0 THEN None ELSE [t |-> "raise", exc |-> "AttributeError"])
    ELSE IF section.s = Empty THEN None
    ELSE BilletFromLower(Lower(section.s))

Inch == << "_","i","n","c","h" >>

\* numeric_inch_val as a rational n/d.  ok = FALSE with zero = FALSE is the
\* ValueError that line 63 turns into 0; zero = TRUE is the
\* ZeroDivisionError, which the except clause of line 63 does not name.
InchVal(n, d) == [ok |-> TRUE, zero |-> FALSE, n |-> n, d |-> d]
InchValueError == [ok |-> FALSE, zero |-> FALSE, n |-> 0, d |-> 1]
InchZeroDivisionError == [ok |-> FALSE, zero |-> TRUE, n |-> 0, d |-> 1]

\* line 59 and line 62: float(parts[0])
InchOnePart(p1) == IF p1.ok THEN InchVal(p1.v, 1) ELSE InchValueError

\* line 60: float(parts[0]) / float(parts[1])
InchTwoParts(p1, p2) ==
    IF ~p1.ok \/ ~p2.ok THEN InchValueError
    ELSE IF p2.v = 0 THEN InchZeroDivisionError
    ELSE InchVal(p1.v, p2.v)

\* line 61: float(parts[0]) + (float(parts[1]) / float(parts[2]))
InchThreeParts(p1, p2, p3) ==
    IF ~p1.ok \/ ~p2.ok \/ ~p3.ok THEN InchValueError
    ELSE IF p3.v = 0 THEN InchZeroDivisionError
    ELSE InchVal(p1.v * p3.v + p2.v, p3.v)

\* lines 59-62
InchOfParts(parts) ==
    IF Len(parts) = 1 THEN InchOnePart(ParseFloat(parts[1]))
    ELSE IF Len(parts) = 2 THEN InchTwoParts(ParseFloat(parts[1]), ParseFloat(parts[2]))
    ELSE IF Len(parts) = 3
         THEN InchThreeParts(ParseFloat(parts[1]), ParseFloat(parts[2]), ParseFloat(parts[3]))
    ELSE InchOnePart(ParseFloat(parts[1]))

\* lines 57-58 and then lines 59-62
NumericInchVal(inch_size_str) == InchOfParts(Split(Strip(Remove(inch_size_str, Inch)), "_"))

\* lines 63-68 on numeric_inch_val: Num(kg * 10), or the exception
WasteBand(x) ==
    IF x.zero THEN [t |-> "raise", exc |-> "ZeroDivisionError"]
    ELSE IF ~x.ok THEN Num(2)
    ELSE IF RatLe(x.n, x.d, 0) THEN Num(2)
    ELSE IF RatLe(x.n, x.d, 4) THEN Num(2)
    ELSE IF RatLe(x.n, x.d, 8) THEN Num(5)
    ELSE IF RatLe(x.n, x.d, 12) THEN Num(10)
    ELSE Num(10)

\* get_cutting_waste_kg: Num(kg * 10), or [t |-> "raise"] for the exception
\* that leaves the function.
get_cutting_waste_kg(inch_size_str) ==
    IF inch_size_str = Empty THEN Num(2) ELSE WasteBand(NumericInchVal(inch_size_str))

RECURSIVE DropNonWord(_)
DropNonWord(s) ==
    IF s # Empty /\ ~IsWordChar(Head(s)) THEN DropNonWord(Tail(s)) ELSE s

\* create_safe_key: re.sub(r'\W+', '_', s)
RECURSIVE create_safe_key(_)
create_safe_key(description_str) ==
    IF description_str = Empty THEN Empty
    ELSE IF IsWordChar(Head(description_str))
         THEN << Head(description_str) >> \o create_safe_key(Tail(description_str))
         ELSE << "_" >> \o create_safe_key(DropNonWord(description_str))

\* The parts that s.split('+') gives, without the whitespace that touches a '+'
TrimAroundPlus(raw) ==
    [i \in 1 .. Len(raw) |->
        IF i = 1 THEN (IF Len(raw) > 1 THEN RStrip(raw[i]) ELSE raw[i])
        ELSE IF i < Len(raw) THEN RStrip(LStrip(raw[i]))
        ELSE LStrip(raw[i])]

\* re.split(r'\s*\+\s*', s)
ReSplitPlus(s) == TrimAroundPlus(Split(s, "+"))

NonEmptyStr(s) == s # Empty

\* primary_flange_description_for_display of lines 194-196
PrimaryDescription(final_key_part) == Strip(ReSplitPlus(final_key_part)[1])

\* [part.strip() for part in parts[1:] if part.strip()]
StrippedTail(parts) ==
    SelectSeq([i \in 1 .. (Len(parts) - 1) |-> Strip(parts[i + 1])], NonEmptyStr)

\* identified_extra_flanges of lines 194-198
identified_extra_flanges(final_key_part) == StrippedTail(ReSplitPlus(final_key_part))

-----------------------------------------------------------------------------
(* The cost pipeline of the "Calculate Costs" branch, lines 264-346.       *)
(* Weights and rates are integers; a figure named _x10, _x1000 or _x100000 *)
(* is that multiple of the figure the code computes.                       *)

\* the test of line 253
FtMissing(ft_flange_from_data) ==
    IsNone(ft_flange_from_data) \/ ~IsNumeric(ft_flange_from_data)

\* a manual FT that is taken whenever the checkbox is ticked
ft_manual_whenever_ticked(ft_flange_from_data, checkbox, manual) ==
    IF checkbox THEN Num(manual) ELSE ft_flange_from_data

\* ft_flange_final of lines 252-262
ft_flange_final(ft_flange_from_data, checkbox, manual) ==
    IF FtMissing(ft_flange_from_data)
    THEN (IF checkbox THEN Num(manual) ELSE ft_flange_from_data)
    ELSE ft_flange_from_data

\* ft_flange_final is not None and isinstance(ft_flange_final, (int, float))
FtUsable(ft_final) == ~IsNone(ft_final) /\ IsNumeric(ft_final)

\* transportation_weight_basis_kg of lines 299-303
transportation_weight_basis_kg(cw, ft_final) ==
    IF FtUsable(ft_final) THEN ft_final.v ELSE cw

\* transportation_cost_per_piece of line 304
transportation_cost_per_piece(cw, ft_final, inp) ==
    inp.transportation_cost_kg_input * transportation_weight_basis_kg(cw, ft_final)

\* a gross scrap without the floor at zero
scrap_unclamped(fw, ft) == fw - ft

\* scrap_generated_kg_per_piece_gross of lines 309-311
scrap_generated_kg_per_piece_gross(fw, ft) ==
    IF fw < ft THEN 0 ELSE fw - ft

\* scrap_value_per_piece of lines 307-313, times 10 (FW is not None here:
\* line 248 has excluded it)
scrap_value_per_piece_x10(fw, ft_final, inp) ==
    IF FtUsable(ft_final)
    THEN scrap_generated_kg_per_piece_gross(fw, ft_final.v) * SCRAP_LOSS_FACTOR_X10
            * inp.scrap_cost_per_kg_input
    ELSE 0

\* the loop of lines 322-325
RECURSIVE SumPrices(_, _)
SumPrices(descs, efp) ==
    IF descs = Empty THEN 0
    ELSE (IF Head(descs) \in DOMAIN efp THEN efp[Head(descs)] ELSE 0)
         + SumPrices(Tail(descs), efp)

\* total_value_from_extra_flanges of lines 319-325
total_value_from_extra_flanges(descs, efp) ==
    IF DOMAIN efp # {} /\ descs # Empty THEN SumPrices(descs, efp) ELSE 0

\* a total floored at zero
total_floored_at_zero(steel, machining, forging, transport, scrap_x10, extra) ==
    IF 10 * (steel + machining + forging + transport) - scrap_x10 - 10 * extra < 0 THEN 0
    ELSE 10 * (steel + machining + forging + transport) - scrap_x10 - 10 * extra

\* total_cost_per_piece_before_profit of lines 329-331, times 10
total_cost_per_piece_before_profit_x10(steel, machining, forging, transport, scrap_x10, extra) ==
    10 * (steel + machining + forging + transport) - scrap_x10 - 10 * extra

\* profit_amount_per_piece of line 335, times 1000
profit_amount_per_piece_x1000(total_x10, calc_profit_margin) ==
    total_x10 * calc_profit_margin

\* cost_with_profit_per_piece of line 337, times 1000
cost_with_profit_per_piece_x1000(total_x10, calc_profit_margin) ==
    total_x10 * 100 + profit_amount_per_piece_x1000(total_x10, calc_profit_margin)

\* gst_amount_per_piece of line 339, times 100000
gst_amount_per_piece_x100000(cost_with_profit_x1000) ==
    cost_with_profit_x1000 * GST_RATE_PCT

\* final_selling_price_per_piece of line 341, times 100000
final_selling_price_per_piece_x100000(cost_with_profit_x1000) ==
    cost_with_profit_x1000 * 100 + gst_amount_per_piece_x100000(cost_with_profit_x1000)

\* "if calculated_billet_mass_kg:" is false for None and for 0.0
BilletKnown(billet) == ~IsNone(billet) /\ billet.n # 0

\* num_pieces_from_billet_calc of lines 284-287, floored
PiecesFromBillet(billet, material_x10) ==
    IF BilletKnown(billet) /\ material_x10 > 0
    THEN Num((10 * billet.n) \div (billet.d * material_x10))
    ELSE None

\* lines 329-346: the breakdown, from the total on
Breakdown(cw, fw, billet, waste_x10, ft_final, inp, transport, scrap_x10, extra, total_x10, cost_with_profit_x1000) ==
    [t |-> "results",
     billet_mass |-> IF BilletKnown(billet) THEN billet ELSE None,
     cutting_waste_x10 |-> waste_x10,
     material_x10 |-> 10 * cw + waste_x10,
     pieces_from_billet |-> PiecesFromBillet(billet, 10 * cw + waste_x10),
     steel |-> cw * inp.cost_steel_per_kg_input,
     machining |-> inp.machining_labour_cost_kg_input * cw,
     forging |-> inp.forging_labour_cost_kg_input * cw,
     transport |-> transport,
     transport_basis |-> IF FtUsable(ft_final) THEN "FT" ELSE "CW",
     ft_used |-> ft_final,
     scrap_calculated |-> FtUsable(ft_final),
     scrap_warning |-> FtUsable(ft_final) /\ fw < ft_final.v,
     gross_scrap |-> IF FtUsable(ft_final)
                     THEN scrap_generated_kg_per_piece_gross(fw, ft_final.v)
                     ELSE 0,
     scrap_value_x10 |-> scrap_x10,
     extra_credit |-> extra,
     total_x10 |-> total_x10,
     profit_x1000 |-> profit_amount_per_piece_x1000(total_x10, inp.profit_margin_percent_input),
     cost_with_profit_x1000 |-> cost_with_profit_x1000,
     gst_x100000 |-> gst_amount_per_piece_x100000(cost_with_profit_x1000),
     final_x100000 |-> final_selling_price_per_piece_x100000(cost_with_profit_x1000),
     order_x100000 |-> final_selling_price_per_piece_x100000(cost_with_profit_x1000)
                          * inp.num_pieces_required_input]

\* lines 329-337
FromTotal(cw, fw, billet, waste_x10, ft_final, inp, transport, scrap_x10, extra, total_x10) ==
    Breakdown(cw, fw, billet, waste_x10, ft_final, inp, transport, scrap_x10, extra, total_x10,
              cost_with_profit_per_piece_x1000(total_x10, inp.profit_margin_percent_input))

\* lines 292-331
FromParts(cw, fw, billet, waste_x10, ft_final, inp, transport, scrap_x10, extra) ==
    FromTotal(cw, fw, billet, waste_x10, ft_final, inp, transport, scrap_x10, extra,
              total_cost_per_piece_before_profit_x10(
                  cw * inp.cost_steel_per_kg_input,
                  inp.machining_labour_cost_kg_input * cw,
                  inp.forging_labour_cost_kg_input * cw,
                  transport, scrap_x10, extra))

\* lines 278-331: an exception of either helper ends the run
FromHelpers(cw, fw, billet, waste, ft_final, inp, descs, efp) ==
    IF billet.t = "raise" THEN billet
    ELSE IF waste.t = "raise" THEN waste
    ELSE FromParts(cw, fw, billet, waste.v, ft_final, inp,
                   transportation_cost_per_piece(cw, ft_final, inp),
                   scrap_value_per_piece_x10(fw, ft_final, inp),
                   total_value_from_extra_flanges(descs, efp))

\* lines 273-346 for a leaf whose CW and FW are not None: the breakdown, or
\* [t |-> "raise"] when an exception ends the script run.  Line 275 formats
\* CW and FW with ':.3f', which raises for a string.
CalculateCosts(cw_flange, fw_flange, section_from_data, inch_size_selected_str, ft_final, inp, descs, efp) ==
    IF ~IsNumeric(cw_flange) \/ ~IsNumeric(fw_flange)
    THEN [t |-> "raise", exc |-> "ValueError"]
    ELSE FromHelpers(cw_flange.v, fw_flange.v,
                     calculate_billet_weight_from_section(section_from_data),
                     get_cutting_waste_kg(inch_size_selected_str),
                     ft_final, inp, descs, efp)

-----------------------------------------------------------------------------
(* The script run: lines 98-350, top to bottom *)

\* cost_input_keys_defaults of lines 111-116
cost_input_keys_defaults ==
    [cost_steel_per_kg_input |-> 100,
     scrap_cost_per_kg_input |-> 20,
     machining_labour_cost_kg_input |-> 10,
     forging_labour_cost_kg_input |-> 15,
     transportation_cost_kg_input |-> 5,
     profit_margin_percent_input |-> 10,
     num_pieces_required_input |-> 1]

\* The values the user may give each cost input, within the widget's range
InputValues ==
    [cost_steel_per_kg_input |-> {5, 100},
     scrap_cost_per_kg_input |-> {0, 20},
     machining_labour_cost_kg_input |-> {0, 10},
     forging_labour_cost_kg_input |-> {0, 15},
     transportation_cost_kg_input |-> {0, 5},
     profit_margin_percent_input |-> {0, 10},
     num_pieces_required_input |-> {1, 2}]

\* The cost inputs the user edits in Spec; SpecCalc draws all seven
SessionEditedKeys == {"cost_steel_per_kg_input", "num_pieces_required_input"}

\* The values the user may give an extra flange's price and the manual FT
PriceValues == {0, 100}
ManualFtValues == {0, 11}

\* What check_password renders while it returns False, lines 82-92
LockedPage(msg) ==
    [gate |-> "locked", n_dropdowns |-> 0, leaf |-> None, extras |-> Empty,
     primary |-> Empty, message |-> msg, checkbox_shown |-> FALSE,
     manual_shown |-> FALSE, button_shown |-> FALSE, results |-> None]

\* lines 202-207: a price key not in st.session_state is set to 0.0
RECURSIVE WithPriceDefaults(_, _)
WithPriceDefaults(prices, descs) ==
    IF descs = Empty THEN prices
    ELSE WithPriceDefaults(IF create_safe_key(Head(descs)) \in DOMAIN prices THEN prices
                           ELSE prices @@ (create_safe_key(Head(descs)) :> 0),
                           Tail(descs))

\* new_extra_flange_prices of lines 202-208
new_extra_flange_prices(prices, descs) ==
    [desc \in Range(descs) |-> prices[create_safe_key(desc)]]

\* the keys of the price inputs rendered by lines 220-226
PriceWidgets(descs) == { create_safe_key(descs[i]) : i \in 1 .. Len(descs) }

\* a test of CW alone
cw_missing_only(cw_flange, fw_flange) == IsNone(cw_flange)

\* the test of line 248
WeightsMissing(cw_flange, fw_flange) == IsNone(cw_flange) \/ IsNone(fw_flange)

\* lines 256-259: with the checkbox ticked the label of the manual input is
\* built with float(fw_flange) and the ':.2f' format of FW, which raise for
\* a string
ManualLabelRaises(ft_flange_from_data, fw_flange, checkbox) ==
    FtMissing(ft_flange_from_data) /\ checkbox /\ ~IsNumeric(fw_flange)

\* Lines 229-348 for a selected leaf: what is shown, and the results when
\* the button was clicked.
LeafPage(n, leaf, descs, primary, inch_size_selected_str, efp, cw_flange, fw_flange, ft_flange_from_data, checkbox, manual, inp, clicked) ==
    IF WeightsMissing(cw_flange, fw_flange)
    THEN [gate |-> "open", n_dropdowns |-> n, leaf |-> leaf, extras |-> descs,
          primary |-> primary, message |-> "cw_fw_missing_error",
          checkbox_shown |-> FALSE, manual_shown |-> FALSE, button_shown |-> FALSE,
          results |-> None]
    ELSE IF ManualLabelRaises(ft_flange_from_data, fw_flange, checkbox)
    THEN [gate |-> "open", n_dropdowns |-> n, leaf |-> leaf, extras |-> descs,
          primary |-> primary, message |-> "details",
          checkbox_shown |-> TRUE, manual_shown |-> FALSE, button_shown |-> FALSE,
          results |-> [t |-> "raise", exc |-> "ValueError"]]
    ELSE [gate |-> "open", n_dropdowns |-> n, leaf |-> leaf, extras |-> descs,
          primary |-> primary, message |-> "details",
          checkbox_shown |-> FtMissing(ft_flange_from_data),
          manual_shown |-> FtMissing(ft_flange_from_data) /\ checkbox,
          button_shown |-> TRUE,
          results |-> IF clicked
                      THEN CalculateCosts(cw_flange, fw_flange,
                                          Get(leaf, K_SECTION, Str(NotAvailable)),
                                          inch_size_selected_str,
                                          ft_flange_final(ft_flange_from_data, checkbox, manual),
                                          inp, descs, efp)
                      ELSE None]

\* line 348: no leaf is selected
InfoPage(n) ==
    [gate |-> "open", n_dropdowns |-> n, leaf |-> None, extras |-> Empty,
     primary |-> Empty, message |-> "select_flange_info", checkbox_shown |-> FALSE,
     manual_shown |-> FALSE, button_shown |-> FALSE, results |-> None]

\* lines 202-348 for a selected leaf, prices being the price keys after
\* lines 203-206
WithLeaf(loop, path, leaf, descs, prices, checkbox, manual, inp, clicked) ==
    [sel |-> loop.sel,
     prices |-> prices,
     efp |-> new_extra_flange_prices(prices, descs),
     price_widgets |-> PriceWidgets(descs),
     page |-> LeafPage(loop.n, leaf, descs, PrimaryDescription(path[Len(path)]),
                       IF Len(path) > 1 THEN path[2] ELSE Empty,
                       new_extra_flange_prices(prices, descs),
                       Get(leaf, K_CW, None), Get(leaf, K_FW, None), Get(leaf, K_FT, None),
                       checkbox, manual, inp, clicked)]

\* lines 189-348, descs being identified_extra_flanges
WithExtras(loop, path, leaf, descs, prices, efp, checkbox, manual, inp, clicked) ==
    WithLeaf(loop, path, leaf, descs, WithPriceDefaults(prices, descs),
             checkbox, manual, inp, clicked)

\* lines 182-348, leaf being selected_flange_data
WithSelected(loop, path, leaf, prices, efp, checkbox, manual, inp, clicked) ==
    IF IsNone(leaf)
    THEN [sel |-> loop.sel, prices |-> prices, efp |-> efp, price_widgets |-> {},
          page |-> InfoPage(loop.n)]
    ELSE WithExtras(loop, path, leaf, identified_extra_flanges(path[Len(path)]),
                    prices, efp, checkbox, manual, inp, clicked)

\* lines 182-348, path being active_selection_path
WithPath(loop, path, prices, efp, checkbox, manual, inp, clicked) ==
    WithSelected(loop, path, selected_flange_data(path), prices, efp,
                 checkbox, manual, inp, clicked)

\* lines 139-348, loop being the outcome of the dropdown rendering loop
AfterLoop(loop, prices, efp, checkbox, manual, inp, clicked) ==
    WithPath(loop, active_selection_path(loop.sel), prices, efp,
             checkbox, manual, inp, clicked)

\* One run of the script behind the gate (lines 99-350): the session state
\* it leaves (sel, prices, efp), the price inputs it rendered and its page.
ScriptBody(sel, prices, efp, checkbox, manual, inp, clicked) ==
    AfterLoop(DropdownLoop(sel, 0), prices, efp, checkbox, manual, inp, clicked)

NoChange == [level |-> 0 - 1, label |-> Empty]

Restrict(f, S) == [x \in S |-> f[x]]

-----------------------------------------------------------------------------
(* Initial state and actions *)

\* The session before the first interaction: the password form is shown.
\* The keys of lines 107-121 are not yet in st.session_state; they are held
\* here at the values those lines give them on the first run behind the gate.
SessionStart ==
    /\ password_correct = "absent"
    /\ selections = [k \in Levels |-> Empty]
    /\ pending = "none"
    /\ last_change = NoChange
    /\ inputs = cost_input_keys_defaults
    /\ ft_manual_checkbox = FALSE
    /\ ft_manual_input = 0
    /\ session_prices = << >>
    /\ extra_flange_prices = << >>
    /\ calc_button = FALSE
    /\ page = LockedPage("password")

Init ==
    /\ SessionStart
    /\ token = Empty
    /\ waste_out = None

\* a password form that takes a single attempt
PasswordEnteredOnce(matches) ==
    /\ pending = "none"
    /\ page.gate = "locked"
    /\ password_correct = "absent"
    /\ password_correct' = IF matches THEN "True" ELSE "False"
    /\ pending' = "rerun"
    /\ UNCHANGED << selections, last_change, inputs, ft_manual_checkbox, ft_manual_input,
                    session_prices, extra_flange_prices, calc_button, page, token, waste_out >>

\* password_entered, lines 75-80: the text typed is the secret or is not
PasswordEntered(matches) ==
    /\ pending = "none"
    /\ page.gate = "locked"
    /\ password_correct' = IF matches THEN "True" ELSE "False"
    /\ pending' = "rerun"
    /\ UNCHANGED << selections, last_change, inputs, ft_manual_checkbox, ft_manual_input,
                    session_prices, extra_flange_prices, calc_button, page, token, waste_out >>

\* The user picks label v in the dropdown of level i: the widget's value
\* changes and selection_on_change_callback(i, key) runs.
SelectionChange(i, v) ==
    /\ pending = "none"
    /\ page.gate = "open"
    /\ i < page.n_dropdowns
    /\ v \in OptionsFor(DataSourceFor(selections, i))
    /\ v # selections[i]
    /\ selections' = selection_on_change_callback(selections, i, v)
    /\ last_change' = [level |-> i, label |-> v]
    /\ pending' = "rerun"
    /\ UNCHANGED << password_correct, inputs, ft_manual_checkbox, ft_manual_input,
                    session_prices, extra_flange_prices, calc_button, page, token, waste_out >>

\* The user edits one of the number inputs of lines 212-218
SetCostInput(key, v) ==
    /\ pending = "none"
    /\ page.gate = "open"
    /\ v # inputs[key]
    /\ inputs' = [inputs EXCEPT ![key] = v]
    /\ pending' = "rerun"
    /\ UNCHANGED << password_correct, selections, last_change, ft_manual_checkbox,
                    ft_manual_input, session_prices, extra_flange_prices, calc_button,
                    page, token, waste_out >>

\* The user edits the price input of an extra flange, line 224
SetExtraPrice(desc, v) ==
    /\ pending = "none"
    /\ page.gate = "open"
    /\ desc \in Range(page.extras)
    /\ v # session_prices[create_safe_key(desc)]
    /\ session_prices' = [session_prices EXCEPT ![create_safe_key(desc)] = v]
    /\ pending' = "rerun"
    /\ UNCHANGED << password_correct, selections, last_change, inputs, ft_manual_checkbox,
                    ft_manual_input, extra_flange_prices, calc_button, page, token, waste_out >>

\* The user ticks or unticks the checkbox of line 255
ToggleManualCheckbox ==
    /\ pending = "none"
    /\ page.checkbox_shown
    /\ ft_manual_checkbox' = ~ft_manual_checkbox
    /\ pending' = "rerun"
    /\ UNCHANGED << password_correct, selections, last_change, inputs, ft_manual_input,
                    session_prices, extra_flange_prices, calc_button, page, token, waste_out >>

\* The user edits the manual FT input of lines 258-261
SetManualFt(v) ==
    /\ pending = "none"
    /\ page.manual_shown
    /\ v # ft_manual_input
    /\ ft_manual_input' = v
    /\ pending' = "rerun"
    /\ UNCHANGED << password_correct, selections, last_change, inputs, ft_manual_checkbox,
                    session_prices, extra_flange_prices, calc_button, page, token, waste_out >>

\* The user clicks "Calculate Costs", line 264
ClickCalculate ==
    /\ pending = "none"
    /\ page.button_shown
    /\ calc_button' = TRUE
    /\ pending' = "rerun"
    /\ UNCHANGED << password_correct, selections, last_change, inputs, ft_manual_checkbox,
                    ft_manual_input, session_prices, extra_flange_prices, page, token,
                    waste_out >>

\* What a script run behind the gate leaves.  A key that belongs to a widget
\* (a price input, the FT checkbox, the manual FT input) is held by
\* Streamlit only while that widget is rendered: after a run that did not
\* render it the entry is either still there or gone, and lines 117-118 and
\* 205-206 give a missing entry its default in the next run.
ApplyRun(run) ==
    /\ selections' = run.sel
    /\ extra_flange_prices' = run.efp
    /\ page' = run.page
    /\ \E kept \in SUBSET (DOMAIN run.prices \ run.price_widgets) :
          session_prices' = Restrict(run.prices, run.price_widgets \cup kept)
    /\ ft_manual_checkbox' \in
          IF run.page.checkbox_shown THEN {ft_manual_checkbox} ELSE {ft_manual_checkbox, FALSE}
    /\ ft_manual_input' \in
          IF run.page.manual_shown THEN {ft_manual_input} ELSE {ft_manual_input, 0}

\* The script run that follows every interaction, lines 98-350
ScriptRun ==
    /\ pending = "rerun"
    /\ IF password_correct # "True"
       THEN /\ page' = LockedPage(IF password_correct = "absent" THEN "password"
                                  ELSE "password_incorrect")
            /\ UNCHANGED << selections, session_prices, extra_flange_prices,
                            ft_manual_checkbox, ft_manual_input >>
       ELSE ApplyRun(ScriptBody(selections, session_prices, extra_flange_prices,
                                ft_manual_checkbox, ft_manual_input, inputs, calc_button))
    /\ pending' = "none"
    /\ calc_button' = FALSE
    /\ last_change' = NoChange
    /\ UNCHANGED << password_correct, inputs, token, waste_out >>

Next ==
    \/ \E matches \in BOOLEAN : PasswordEntered(matches)
    \/ \E i \in Levels : \E v \in OptionsFor(DataSourceFor(selections, i)) : SelectionChange(i, v)
    \/ \E key \in SessionEditedKeys : \E v \in InputValues[key] : SetCostInput(key, v)
    \/ \E desc \in Range(page.extras) : \E v \in PriceValues : SetExtraPrice(desc, v)
    \/ ToggleManualCheckbox
    \/ \E v \in ManualFtValues : SetManualFt(v)
    \/ ClickCalculate
    \/ ScriptRun

Spec == Init /\ [][Next]_vars

-----------------------------------------------------------------------------
(* SpecWaste: get_cutting_waste_kg applied to every token over a small     *)
(* alphabet, with and without the "_inch" suffix.                          *)

MaxTokenLen == 5
TokenAlphabet == {"0", "1", "4", "8", "_", "x"}

RECURSIVE StringsUpTo(_)
StringsUpTo(n) ==
    IF n = 0 THEN {Empty}
    ELSE StringsUpTo(n - 1)
         \cup { Append(w, c) : w \in { u \in StringsUpTo(n - 1) : Len(u) = n - 1 },
                               c \in TokenAlphabet }

Tokens == StringsUpTo(MaxTokenLen) \cup { w \o Inch : w \in StringsUpTo(MaxTokenLen) }

InitWaste ==
    /\ SessionStart
    /\ token \in Tokens
    /\ waste_out = None

ApplyWaste ==
    /\ IsNone(waste_out)
    /\ waste_out' = get_cutting_waste_kg(token)
    /\ UNCHANGED << appVars, token >>

NextWaste == ApplyWaste

SpecWaste == InitWaste /\ [][NextWaste]_vars

-----------------------------------------------------------------------------
(* SpecCalc: the script run that follows a click on "Calculate Costs", for *)
(* every leaf that shows the button and every combination of the cost      *)
(* inputs, the manual FT fields and the prices of the leaf's extras.       *)

RECURSIVE PathsOf(_)
PathsOf(node) ==
    IF IsDict(node) /\ ~HasWeightKeys(node)
    THEN {Empty} \cup UNION { { << k >> \o q : q \in PathsOf(node.d[k]) } : k \in Keys(node) }
    ELSE {Empty}

Padded(path) == [k \in Levels |-> IF k < Len(path) THEN path[k + 1] ELSE Empty]

CatalogSelections == { Padded(q) : q \in PathsOf(flange_database) }

LeafExtras(sel) ==
    IF IsNone(selected_flange_data(active_selection_path(sel))) THEN Empty
    ELSE identified_extra_flanges(active_selection_path(sel)[Len(active_selection_path(sel))])

InitCalc ==
    /\ password_correct = "True"
    /\ selections \in CatalogSelections
    /\ inputs \in [cost_steel_per_kg_input : InputValues.cost_steel_per_kg_input,
                   scrap_cost_per_kg_input : InputValues.scrap_cost_per_kg_input,
                   machining_labour_cost_kg_input : InputValues.machining_labour_cost_kg_input,
                   forging_labour_cost_kg_input : InputValues.forging_labour_cost_kg_input,
                   transportation_cost_kg_input : InputValues.transportation_cost_kg_input,
                   profit_margin_percent_input : InputValues.profit_margin_percent_input,
                   num_pieces_required_input : InputValues.num_pieces_required_input]
    /\ ft_manual_checkbox \in BOOLEAN
    /\ ft_manual_input \in ManualFtValues
    /\ session_prices \in [PriceWidgets(LeafExtras(selections)) -> PriceValues]
    /\ extra_flange_prices = new_extra_flange_prices(session_prices, LeafExtras(selections))
    /\ page = ScriptBody(selections, session_prices, extra_flange_prices,
                         ft_manual_checkbox, ft_manual_input, inputs, FALSE).page
    /\ page.button_shown
    /\ calc_button = TRUE
    /\ pending = "rerun"
    /\ last_change = NoChange
    /\ token = Empty
    /\ waste_out = None

NextCalc == ScriptRun

SpecCalc == InitCalc /\ [][NextCalc]_vars

-----------------------------------------------------------------------------
(* Properties of the navigator *)

\* the selections of levels 0 .. i-1, as a path
PrefixPath(i) == [k \in 1 .. i |-> selections[k - 1]]

\* the catalog node those selections lead to
PrefixNode(i) == get_nested_value(flange_database, PrefixPath(i))

\* the catalog node the non-empty selections lead to
ResolvedNode == get_nested_value(flange_database, active_selection_path(selections))

\* a mapping that contains the FW key and the CW key
HasBothKeys(node) == IsDict(node) /\ K_FW \in Keys(node) /\ K_CW \in Keys(node)

\* C1: right after the change callback of level i has run with label v,
\* selections[i] is v and every level below i is empty, whatever the
\* selections were before.
C1_CallbackClearsDeeper ==
    last_change.level >= 0 =>
        /\ selections[last_change.level] = last_change.label
        /\ \A k \in Levels : k > last_change.level => selections[k] = Empty

\* C1: the product type was changed from WN to SO while the page still shows
\* the leaf WN / 2_inch / 150 / RF, whose labels 2_inch, 150 and RF are also
\* children along the SO branch.
C1_Witness ==
    /\ pending = "rerun"
    /\ last_change = [level |-> 0, label |-> L_SO]
    /\ page.leaf = Leaf_A
    /\ ~IsNone(get_nested_value(flange_database, << L_SO, L_2_inch, L_150, L_RF >>))
    /\ selections[1] = Empty

\* C2: in every state the selections are a path of the catalog: a non-empty
\* selection at level i has no empty selection above it and is a key of the
\* mapping reached through levels 0 .. i-1, and that mapping is not a leaf.
C2_SelectionsFollowCatalog ==
    \A i \in Levels :
        selections[i] # Empty =>
            /\ \A j \in 0 .. (i - 1) : selections[j] # Empty
            /\ IsDict(PrefixNode(i))
            /\ ~HasBothKeys(PrefixNode(i))
            /\ selections[i] \in Keys(PrefixNode(i))

\* C2: a four-level path along the SO branch, chosen after a change of the
\* product type and rendered again.
C2_Witness ==
    /\ pending = "none"
    /\ selections[0] = L_SO
    /\ selections[3] = L_SO_B_L
    /\ page.n_dropdowns = 4

\* C3 as stated: the resolved node is treated as a leaf exactly when it is a
\* mapping whose FW and CW keys hold numeric values.
C3_LeafIffNumericWeights ==
    (pending = "none" /\ page.gate = "open") =>
        (~IsNone(page.leaf) <=>
            (/\ HasBothKeys(ResolvedNode)
             /\ IsNumeric(ResolvedNode.d[K_FW])
             /\ IsNumeric(ResolvedNode.d[K_CW])))

\* C3: after a script run the node resolved by a non-empty selection path is
\* the selected leaf, and the dropdowns end at its depth, exactly when it is
\* a mapping containing the FW key and the CW key, whatever their values;
\* otherwise no leaf is selected and all levels are rendered.
C3_LeafIffBothKeys ==
    (pending = "none" /\ page.gate = "open") =>
        IF active_selection_path(selections) # Empty /\ HasBothKeys(ResolvedNode)
        THEN /\ page.leaf = ResolvedNode
             /\ page.n_dropdowns = Len(active_selection_path(selections))
        ELSE /\ IsNone(page.leaf)
             /\ page.n_dropdowns = NumLevels

\* C3: the node SO / 2_inch / 300, whose FW is null, is the selected leaf
C3_Witness ==
    /\ pending = "none"
    /\ page.gate = "open"
    /\ page.leaf = Leaf_I
    /\ IsNone(Leaf_I.d[K_FW])
    /\ page.n_dropdowns = 3

-----------------------------------------------------------------------------
(* Properties of the cost calculation *)

\* the page shows the breakdown of a completed calculation
Calculated == pending = "none" /\ page.results.t = "results"

\* the weights and the FT entry of the leaf the page shows
LeafCW == page.leaf.d[K_CW].v
LeafFW == page.leaf.d[K_FW].v
LeafFT == Get(page.leaf, K_FT, None)

\* C4: every calculated breakdown satisfies the cost chain exactly, with no
\* step floored at zero: steel, machining and forging are CW times their
\* rates; the total is their sum plus transport, minus the scrap value and
\* the extra flange credit; profit is total * margin / 100; GST is 19 % of
\* total + profit; the final price is total + profit + GST and the order
\* value is the final price times the number of pieces.
C4_CostChain ==
    Calculated =>
        /\ page.results.steel = LeafCW * inputs.cost_steel_per_kg_input
        /\ page.results.machining = LeafCW * inputs.machining_labour_cost_kg_input
        /\ page.results.forging = LeafCW * inputs.forging_labour_cost_kg_input
        /\ page.results.total_x10 =
              10 * (page.results.steel + page.results.machining + page.results.forging
                    + page.results.transport)
              - page.results.scrap_value_x10 - 10 * page.results.extra_credit
        /\ page.results.profit_x1000 =
              page.results.total_x10 * inputs.profit_margin_percent_input
        /\ page.results.cost_with_profit_x1000 =
              100 * page.results.total_x10 + page.results.profit_x1000
        /\ page.results.gst_x100000 = 19 * page.results.cost_with_profit_x1000
        /\ page.results.final_x100000 =
              100 * page.results.cost_with_profit_x1000 + page.results.gst_x100000
        /\ page.results.order_x100000 =
              page.results.final_x100000 * inputs.num_pieces_required_input

\* C4: CW 10, steel rate 5, every other rate 0, extra credit 100, margin
\* 10 %: total -50, profit -5, GST -10.45, final price -65.45.
C4_Witness ==
    /\ Calculated
    /\ LeafCW = 10
    /\ inputs.cost_steel_per_kg_input = 5
    /\ page.results.extra_credit = 100
    /\ page.results.total_x10 = 0 - 500
    /\ page.results.profit_x1000 = 0 - 5000
    /\ page.results.cost_with_profit_x1000 = 0 - 55000
    /\ page.results.gst_x100000 = 0 - 1045000
    /\ page.results.final_x100000 = 0 - 6545000

\* gross scrap times the 0.90 loss factor times the scrap rate, times 10
ExpectedScrap_x10(fw, ft) ==
    9 * (IF fw - ft > 0 THEN fw - ft ELSE 0) * inputs.scrap_cost_per_kg_input

\* C5: in every calculated breakdown a numeric FT of the data is the FT used
\* for transport and scrap, whatever the manual checkbox and manual value
\* hold; with no numeric FT in the data the manual value is used when the
\* checkbox is ticked; otherwise transport is charged on CW.
C5_FtSource ==
    Calculated =>
        IF IsNumeric(LeafFT)
        THEN /\ page.results.ft_used = LeafFT
             /\ page.results.transport_basis = "FT"
             /\ page.results.transport = inputs.transportation_cost_kg_input * LeafFT.v
             /\ page.results.scrap_value_x10 = ExpectedScrap_x10(LeafFW, LeafFT.v)
        ELSE IF ft_manual_checkbox
        THEN /\ page.results.ft_used = Num(ft_manual_input)
             /\ page.results.transport_basis = "FT"
             /\ page.results.transport = inputs.transportation_cost_kg_input * ft_manual_input
             /\ page.results.scrap_value_x10 = ExpectedScrap_x10(LeafFW, ft_manual_input)
        ELSE /\ page.results.transport_basis = "CW"
             /\ page.results.transport = inputs.transportation_cost_kg_input * LeafCW

\* C5: a breakdown for a leaf with numeric FT, calculated while the checkbox
\* is still ticked and a manual value is still held from an earlier leaf
C5_Witness ==
    /\ Calculated
    /\ IsNumeric(LeafFT)
    /\ ft_manual_checkbox
    /\ ft_manual_input = 11
    /\ LeafFT.v # 11
    /\ page.results.ft_used = LeafFT

\* the FT the calculation has to use: the data's when numeric, else the
\* manual one when the checkbox is ticked, else none
AvailableFT ==
    IF IsNumeric(LeafFT) THEN LeafFT
    ELSE IF ft_manual_checkbox THEN Num(ft_manual_input)
    ELSE None

\* C6: with an FT available the scrap value is 0.90 * max(0, FW - FT) * scrap
\* rate, the gross scrap is floored at zero and a warning is given exactly
\* when FW < FT; with no FT available scrap is reported as not calculated,
\* its value is 0 and it takes nothing off the total.
C6_ScrapValue ==
    Calculated =>
        IF IsNumeric(AvailableFT)
        THEN /\ page.results.scrap_calculated
             /\ page.results.gross_scrap =
                   (IF LeafFW - AvailableFT.v > 0 THEN LeafFW - AvailableFT.v ELSE 0)
             /\ page.results.scrap_value_x10 = ExpectedScrap_x10(LeafFW, AvailableFT.v)
             /\ page.results.scrap_warning <=> (LeafFW < AvailableFT.v)
        ELSE /\ ~page.results.scrap_calculated
             /\ ~page.results.scrap_warning
             /\ page.results.scrap_value_x10 = 0
             /\ page.results.total_x10 =
                   10 * (page.results.steel + page.results.machining + page.results.forging
                         + page.results.transport)
                   - 10 * page.results.extra_credit

\* C6: FW 20 below FT 30 with a scrap rate of 20: a calculated scrap of zero
\* with the warning
C6_Witness ==
    /\ Calculated
    /\ LeafFW = 20
    /\ LeafFT = Num(30)
    /\ inputs.scrap_cost_per_kg_input = 20
    /\ page.results.scrap_calculated
    /\ page.results.scrap_warning
    /\ page.results.gross_scrap = 0
    /\ page.results.scrap_value_x10 = 0

\* a breakdown whose scrap is not calculated, its value also zero
C6_NotCalculatedReached ==
    /\ Calculated
    /\ ~page.results.scrap_calculated
    /\ page.results.scrap_value_x10 = 0

-----------------------------------------------------------------------------
(* Properties of the cutting waste *)

\* the token without its "_inch" suffix
SizeCore(tok) ==
    IF Len(tok) >= Len(Inch) /\ SubSeq(tok, Len(tok) - Len(Inch) + 1, Len(tok)) = Inch
    THEN SubSeq(tok, 1, Len(tok) - Len(Inch))
    ELSE tok

\* the underscore-separated parts of the token
SizeParts(tok) == Split(SizeCore(tok), "_")

\* a non-empty string of decimal digits
IsNatural(p) == p # Empty /\ \A i \in 1 .. Len(p) : IsDigit(p[i])

\* 0.2, 0.5 or 1.0 kg, times 10, for the size n/d with d > 0
BandOf(n, d) == IF n <= 4 * d THEN 2 ELSE IF n <= 8 * d THEN 5 ELSE 10

\* The waste, times 10, that the bands give a token of one to three parts:
\* an integer, a fraction n_d or a mixed number w_n_d is decoded, anything
\* else (a part that is no number, a zero denominator) is unparseable.
ExpectedWaste_x10(parts) ==
    IF Len(parts) = 1 /\ IsNatural(parts[1])
    THEN BandOf(DigitsValue(parts[1]), 1)
    ELSE IF Len(parts) = 2 /\ IsNatural(parts[1]) /\ IsNatural(parts[2])
            /\ DigitsValue(parts[2]) # 0
    THEN BandOf(DigitsValue(parts[1]), DigitsValue(parts[2]))
    ELSE IF Len(parts) = 3 /\ IsNatural(parts[1]) /\ IsNatural(parts[2])
            /\ IsNatural(parts[3]) /\ DigitsValue(parts[3]) # 0
    THEN BandOf(DigitsValue(parts[1]) * DigitsValue(parts[3]) + DigitsValue(parts[2]),
                DigitsValue(parts[3]))
    ELSE 2

\* C7: for every size token the cutting waste returned is one of 0.2, 0.5
\* and 1.0 kg, and for a token of one to three parts it is 0.2 when the
\* decoded size is at most 4 or the token is unparseable, 0.5 when the size
\* is above 4 and at most 8, and 1.0 when it is above 8.
C7_WasteBands ==
    ~IsNone(waste_out) =>
        /\ waste_out \in {Num(2), Num(5), Num(10)}
        /\ Len(SizeParts(token)) <= 3 =>
              waste_out = Num(ExpectedWaste_x10(SizeParts(token)))

\* C7: a token whose denominator is zero leaves the function with an
\* exception instead of a waste
C7_Witness ==
    /\ token = << "1", "_", "0" >>
    /\ waste_out = [t |-> "raise", exc |-> "ZeroDivisionError"]

\* the bands hold for every token whose denominator is not zero
C7_BandsUnlessZeroDenominator ==
    (~IsNone(waste_out) /\ waste_out.t # "raise") =>
        /\ waste_out \in {Num(2), Num(5), Num(10)}
        /\ Len(SizeParts(token)) <= 3 =>
              waste_out = Num(ExpectedWaste_x10(SizeParts(token)))

\* the only exception is the division by zero of a fraction or mixed number
C7_RaisesOnlyOnZeroDenominator ==
    (~IsNone(waste_out) /\ waste_out.t = "raise") =>
        /\ Len(SizeParts(token)) \in {2, 3}
        /\ \A i \in 1 .. Len(SizeParts(token)) : IsNatural(SizeParts(token)[i])
        /\ DigitsValue(SizeParts(token)[Len(SizeParts(token))]) = 0

-----------------------------------------------------------------------------
(* Properties of the Calculate step *)

\* the page shows a leaf whose CW and FW are numbers
NumericLeafShown ==
    /\ pending = "none"
    /\ ~IsNone(page.leaf)
    /\ IsNumeric(Get(page.leaf, K_CW, None))
    /\ IsNumeric(Get(page.leaf, K_FW, None))

\* the SECTION text of the leaf is not two numeric dimensions around an x
SectionMalformed ==
    \/ K_SECTION \notin Keys(page.leaf)
    \/ page.leaf.d[K_SECTION].t # "str"
    \/ Len(Split(Lower(page.leaf.d[K_SECTION].s), "x")) # 2
    \/ \E i \in 1 .. Len(Split(Lower(page.leaf.d[K_SECTION].s), "x")) :
          ~IsNatural(Split(Lower(page.leaf.d[K_SECTION].s), "x")[i])

\* the inch label is empty, has a part that is no number, has a zero
\* denominator or has more than three parts
InchUnparseable(label) ==
    \/ label = Empty
    \/ Len(SizeParts(label)) > 3
    \/ \E i \in 1 .. Len(SizeParts(label)) : ~IsNatural(SizeParts(label)[i])
    \/ /\ Len(SizeParts(label)) >= 2
       /\ DigitsValue(SizeParts(label)[Len(SizeParts(label))]) = 0

\* C8: at a leaf with CW and FW present no script run ends in an exception of
\* a helper: whatever the SECTION text and the inch label, a calculation
\* reaches the final price, reports the billet weight as not available for
\* a malformed SECTION and uses 0.2 kg of cutting waste for an unparseable
\* inch label.
C8_CalculateNeverBlocked ==
    NumericLeafShown =>
        /\ page.results.t # "raise"
        /\ page.results.t = "results" =>
              /\ SectionMalformed => IsNone(page.results.billet_mass)
              /\ InchUnparseable(selections[1]) => page.results.cutting_waste_x10 = 2

\* C8: Calculate at WN / 1_0_inch / 150, CW 4 and FW 5, ends in an exception
C8_Witness ==
    /\ NumericLeafShown
    /\ page.leaf = Leaf_E
    /\ selections[1] = L_1_0_inch
    /\ page.results = [t |-> "raise", exc |-> "ZeroDivisionError"]

\* the SECTION text never blocks a calculation
C8_SectionNeverBlocks ==
    (NumericLeafShown /\ page.results.t = "results" /\ SectionMalformed) =>
        /\ IsNone(page.results.billet_mass)
        /\ IsNone(page.results.pieces_from_billet)

\* the only exception at such a leaf is the division by zero of the label
C8_RaisesOnlyOnZeroDenominator ==
    (NumericLeafShown /\ page.results.t = "raise") =>
        /\ page.results.exc = "ZeroDivisionError"
        /\ Len(SizeParts(selections[1])) \in {2, 3}
        /\ DigitsValue(SizeParts(selections[1])[Len(SizeParts(selections[1]))]) = 0

\* a label of four parts is costed with the band of its first part
C8_FourPartsReached ==
    /\ NumericLeafShown
    /\ page.results.t = "results"
    /\ selections[1] = L_9_1_2_3
    /\ page.results.cutting_waste_x10 = 10

\* C9: after every script run behind the gate: with no leaf resolved there is
\* no calculation and the page is the informational prompt, not an error;
\* at a leaf whose CW or FW is null the page is the missing-weights error,
\* with no Calculate button and no calculation; a cost breakdown is shown
\* only at a resolved leaf whose CW and FW are both present.
C9_CalculationNeedsLeafAndWeights ==
    (pending = "none" /\ page.gate = "open") =>
        /\ ~(active_selection_path(selections) # Empty /\ HasBothKeys(ResolvedNode)) =>
              /\ IsNone(page.results)
              /\ ~page.button_shown
              /\ page.message = "select_flange_info"
        /\ (/\ active_selection_path(selections) # Empty
            /\ HasBothKeys(ResolvedNode)
            /\ (IsNone(ResolvedNode.d[K_CW]) \/ IsNone(ResolvedNode.d[K_FW]))) =>
              /\ IsNone(page.results)
              /\ ~page.button_shown
              /\ page.message = "cw_fw_missing_error"
        /\ page.results.t = "results" =>
              /\ active_selection_path(selections) # Empty
              /\ HasBothKeys(ResolvedNode)
              /\ ~IsNone(ResolvedNode.d[K_CW])
              /\ ~IsNone(ResolvedNode.d[K_FW])

\* C9: the leaf SO / 2_inch / 300, whose FW is null, with a steel rate other
\* than the default: the missing-weights error and nothing calculated
C9_Witness ==
    /\ pending = "none"
    /\ page.gate = "open"
    /\ ResolvedNode = Leaf_I
    /\ inputs.cost_steel_per_kg_input = 5
    /\ page.message = "cw_fw_missing_error"
    /\ IsNone(page.results)

-----------------------------------------------------------------------------
(* Properties of the extra flange prices *)

\* the user has not edited the price of desc since the last script run
NotJustEdited(desc) ==
    \/ create_safe_key(desc) \notin DOMAIN session_prices
    \/ session_prices[create_safe_key(desc)] = extra_flange_prices[desc]

\* C10: the price entered for an extra's description is kept under its key
\* from one script run to the next: a run that prices a description again,
\* after the user navigated away from the leaf and back, uses the price it
\* had before unless the user has just edited it.
C10_PriceSurvivesNavigation ==
    [][(pending = "rerun" /\ password_correct = "True") =>
          \A desc \in (DOMAIN extra_flange_prices) \cap (DOMAIN extra_flange_prices') :
              NotJustEdited(desc) => extra_flange_prices'[desc] = extra_flange_prices[desc]]_vars

\* a compound final label is split on "+" into the trimmed primary and the
\* trimmed extras, and each extra is priced under create_safe_key of its
\* description
C10_ParseAndKeys ==
    (pending = "none" /\ ~IsNone(page.leaf)) =>
        /\ selections[3] = L_RF_BL =>
              page.primary = << "R", "F" >> /\ page.extras = << << "B", "L" >> >>
        /\ selections[3] = L_RF_BL_B_L =>
              /\ page.primary = << "R", "F" >>
              /\ page.extras = << << "B", "L" >>, << "B", "-", "L" >> >>
        /\ selections[3] = L_RF => page.extras = Empty
        /\ \A i \in 1 .. Len(page.extras) :
              /\ create_safe_key(page.extras[i]) \in DOMAIN session_prices
              /\ extra_flange_prices[page.extras[i]]
                    = session_prices[create_safe_key(page.extras[i])]

-----------------------------------------------------------------------------
(* Properties of the independence of the extra flange prices *)

\* every extra flange description of the catalog
CatalogExtras == UNION { Range(LeafExtras(sel)) : sel \in CatalogSelections }

\* the price the session holds for a description: what lines 203-207 give
\* new_extra_flange_prices[desc] when the description is priced
PriceHeld(desc) ==
    IF create_safe_key(desc) \in DOMAIN session_prices
    THEN session_prices[create_safe_key(desc)]
    ELSE 0

\* the user changes the price of d1 in this step
PriceEdited(d1) ==
    /\ pending = "none"
    /\ pending' = "rerun"
    /\ d1 \in Range(page.extras)
    /\ PriceHeld(d1)' # PriceHeld(d1)

\* C11: every extra flange description has a price of its own: a step in
\* which the user sets the price of one description leaves the price held
\* for every other description of the catalog as it was.
C11_PricesIndependent ==
    [][\A d1 \in CatalogExtras : \A d2 \in CatalogExtras \ {d1} :
          PriceEdited(d1) => PriceHeld(d2)' = PriceHeld(d2)]_vars

\* C11: the price 100 entered for "B L" at SO / 2_inch / 150 / "SO + B L" is
\* held for the description "B-L" as well
C11_Witness ==
    /\ pending = "rerun"
    /\ page.extras = << << "B", " ", "L" >> >>
    /\ extra_flange_prices[<< "B", " ", "L" >>] = 0
    /\ PriceHeld(<< "B", " ", "L" >>) = 100
    /\ PriceHeld(<< "B", "-", "L" >>) = 100
    /\ create_safe_key(<< "B", "-", "L" >>) = create_safe_key(<< "B", " ", "L" >>)

\* two descriptions with different keys have independent prices
C11_IndependentUnlessSameKey ==
    [][\A d1 \in CatalogExtras : \A d2 \in CatalogExtras \ {d1} :
          (PriceEdited(d1) /\ create_safe_key(d1) # create_safe_key(d2))
              => PriceHeld(d2)' = PriceHeld(d2)]_vars

\* the sum of the prices held for the descriptions of a list
RECURSIVE SumHeld(_)
SumHeld(descs) == IF descs = Empty THEN 0 ELSE PriceHeld(Head(descs)) + SumHeld(Tail(descs))

\* the extra flange credit of a breakdown is the sum of the prices held for
\* the extras of the leaf, each 0 until the user sets it
C11_CreditIsSumOfPrices ==
    Calculated => page.results.extra_credit = SumHeld(page.extras)

-----------------------------------------------------------------------------
(* Properties of the access gate *)

\* nothing of the catalog, the selections or a calculation is in the session
NothingBehindGate ==
    /\ \A k \in Levels : selections[k] = Empty
    /\ session_prices = << >>
    /\ extra_flange_prices = << >>
    /\ IsNone(page.leaf)
    /\ IsNone(page.results)
    /\ page.n_dropdowns = 0
    /\ ~page.button_shown

\* the page shown is the password form and the flag is not true
LockedIdle == pending = "none" /\ password_correct # "True"

\* the user types the secret: the flag becomes true
Unlock == PasswordEntered(TRUE) /\ password_correct' = "True"

\* C12: while password_correct is not true nothing behind the gate has been
\* reached and the page is the password form; an open page is shown only
\* with the flag true; once true the flag stays true in every later step and
\* the next script run opens the page; and at every locked page, after any
\* number of wrong attempts, typing the secret is possible and sets the flag.
C12_AccessGate ==
    /\ [](password_correct # "True" => (NothingBehindGate /\ page.gate = "locked"))
    /\ [](page.gate = "open" => password_correct = "True")
    /\ [][password_correct = "True" => password_correct' = "True"]_vars
    /\ [][(password_correct = "True" /\ pending = "rerun") => page'.gate = "open"]_vars
    /\ [](LockedIdle => ENABLED Unlock)

\* C12: after a wrong attempt the form is shown with the error and the
\* secret can still be typed
C12_Witness ==
    /\ pending = "none"
    /\ password_correct = "False"
    /\ page.gate = "locked"
    /\ page.message = "password_incorrect"
    /\ ENABLED Unlock

====
